---- MODULE Spec2Model ----
(***************************************************************************)
(* Model of gol.c, the pthread implementation of Conway's Game of Life on  *)
(* a torus: main's set-up (thread-count check, barrier, row partition),    *)
(* the worker routine threadFunc with its barrier waits, simulateLife's    *)
(* decide and apply loops, the neighbors function and printEarth.          *)
(***************************************************************************)
EXTENDS Integers, Sequences, FiniteSets, TLC

\* ------------------------------------------------------------------ bounds

\* Concurrent runs (Spec): grid dimensions, cells of the grid, generations,
\* initial live pairs.
MaxRows == 3
MaxCols == 3
MaxCells == 6
MaxIter == 2
MaxLive == 3
\* Pure-function runs (SpecFn): grid dimensions and cells of the grid; every
\* initial grid of such a size.
FnMaxRows == 4
FnMaxCols == 4
FnMaxCells == 12
\* Partition runs (SpecPart): number of rows.
PartMaxRows == 10

VARIABLES
    num_rows,      \* bounds.num_rows
    num_cols,      \* bounds.num_cols
    iterations,    \* bounds.iterations
    init_cells,    \* the (col,row) pairs of the configuration file
    num_threads,   \* -t option
    verbose,       \* -v option
    p_flag,        \* -p option
    earth,         \* the game board, index -> '@' or '-'
    row_start,     \* thread_data[t].row_start
    row_end,       \* thread_data[t].row_end
    mainpc,        \* position of main
    mi,            \* main's loop index i
    pc,            \* position of each thread
    iter,          \* threadFunc's loop variable i of each thread
    idx,           \* index of the running for loop (decide, apply, print)
    change,        \* simulateLife's local array of each thread
    arrived,       \* threads blocked in pthread_barrier_wait
    waits,         \* calls of pthread_barrier_wait each thread has made
    reports,       \* what printEarth has written: one record per call
    diag,          \* the partition lines printed at the end of threadFunc
    counts,        \* SpecFn: neighbors of every index of earth
    prevCounts,    \* SpecFn: counts before the last flip
    flipped,       \* SpecFn: the index flipped last, or -1
    prevEarth      \* SpecFn: the board before the last generation

vars == <<num_rows, num_cols, iterations, init_cells, num_threads, verbose,
          p_flag, earth, row_start, row_end, mainpc, mi, pc, iter, idx,
          change, arrived, waits, reports, diag, counts, prevCounts,
          flipped, prevEarth>>

cfgVars == <<num_rows, num_cols, iterations, init_cells, num_threads,
             verbose, p_flag>>
fnVars == <<counts, prevCounts, flipped, prevEarth>>

\* ------------------------------------------------------- the pure functions

Tids == 0 .. (num_threads - 1)
Indexes(nr, nc) == 0 .. (nr * nc - 1)
\* The in-range (col,row) pairs of a configuration file.
CellPairs(nr, nc) == (0 .. (nc - 1)) \X (0 .. (nr - 1))

\* A variant of InitEarth that takes the first number of a pair for the row
\* and the second for the column.
InitEarthRowFirst(nr, nc, cells) ==
    [i \in Indexes(nr, nc) |->
        IF \E p \in cells : (nc * p[1]) + p[2] = i THEN "@" ELSE "-"]

\* initEarth: every cell dead, then each listed pair set alive at
\* index = num_cols * row + col.
InitEarth(nr, nc, cells) ==
    [i \in Indexes(nr, nc) |->
        IF \E p \in cells : (nc * p[2]) + p[1] = i THEN "@" ELSE "-"]

\* The indexes initEarth stores '@' at, one for each listed pair: the pair is
\* not compared with the dimensions.
InitEarthWrites(nr, nc, cells) == {(nc * p[2]) + p[1] : p \in cells}

\* The bytes of the block initEarth allocates for the board:
\* num_rows * num_cols * sizeof(int).
EarthBlock(nr, nc) == 0 .. (nr * nc * 4 - 1)

Alive(e, i) == IF e[i] = "@" THEN 1 ELSE 0

\* A variant of NeighborIndexes whose left and right neighbours step through
\* the flat array, index - 1 and index + 1, and so wrap into the row above or
\* below at the edge of a row.
NeighborIndexesFlat(index, nr, nc) ==
    LET col     == index % nc
        row     == index \div nc
        r_index == (index + 1) % (nr * nc)
        l_index == ((index - 1) + (nr * nc)) % (nr * nc)
        lower   == (((row + 1) % nr) * nc) + col
        upper   == ((((row - 1) + nr) % nr) * nc) + col
        r_lower == ((lower \div nc) * nc) + (((lower % nc) + 1) % nc)
        l_lower == ((lower \div nc) * nc) + (((lower % nc) - 1 + nc) % nc)
        r_upper == ((upper \div nc) * nc) + (((upper % nc) + 1) % nc)
        l_upper == ((upper \div nc) * nc) + (((upper % nc) - 1 + nc) % nc)
    IN  <<l_index, r_index, upper, l_upper, r_upper, lower, l_lower, r_lower>>

\* A variant of NeighborIndexes whose lower row is row + 1 with no wrap at
\* the bottom of the board.
NeighborIndexesNoRowWrap(index, nr, nc) ==
    LET col     == index % nc
        row     == index \div nc
        r_index == (row * nc) + ((col + 1) % nc)
        l_index == (row * nc) + (((col - 1) + nc) % nc)
        lower   == ((row + 1) * nc) + col
        upper   == ((((row - 1) + nr) % nr) * nc) + col
        r_lower == ((lower \div nc) * nc) + (((lower % nc) + 1) % nc)
        l_lower == ((lower \div nc) * nc) + (((lower % nc) - 1 + nc) % nc)
        r_upper == ((upper \div nc) * nc) + (((upper % nc) + 1) % nc)
        l_upper == ((upper \div nc) * nc) + (((upper % nc) - 1 + nc) % nc)
    IN  <<l_index, r_index, upper, l_upper, r_upper, lower, l_lower, r_lower>>

\* The eight indexes neighbors() reads, in the order it reads them:
\* l_index, r_index, upper, l_upper, r_upper, lower, l_lower, r_lower.
NeighborIndexes(index, nr, nc) ==
    LET col     == index % nc
        row     == index \div nc
        r_index == (row * nc) + ((col + 1) % nc)
        l_index == (row * nc) + (((col - 1) + nc) % nc)
        lower   == (((row + 1) % nr) * nc) + col
        upper   == ((((row - 1) + nr) % nr) * nc) + col
        r_lower == ((lower \div nc) * nc) + (((lower % nc) + 1) % nc)
        l_lower == ((lower \div nc) * nc) + (((lower % nc) - 1 + nc) % nc)
        r_upper == ((upper \div nc) * nc) + (((upper % nc) + 1) % nc)
        l_upper == ((upper \div nc) * nc) + (((upper % nc) - 1 + nc) % nc)
    IN  <<l_index, r_index, upper, l_upper, r_upper, lower, l_lower, r_lower>>

\* A variant of Neighbors that counts each live neighbouring cell once,
\* however many of the eight reads reach it.
NeighborsDistinct(e, index, nr, nc) ==
    LET n == NeighborIndexes(index, nr, nc)
    IN  Cardinality({n[k] : k \in {j \in 1 .. 8 : e[n[j]] = "@"}})

\* neighbors(): the number of those eight reads that find '@'.
Neighbors(e, index, nr, nc) ==
    LET n == NeighborIndexes(index, nr, nc)
    IN  Alive(e, n[1]) + Alive(e, n[2]) + Alive(e, n[3]) + Alive(e, n[4])
        + Alive(e, n[5]) + Alive(e, n[6]) + Alive(e, n[7]) + Alive(e, n[8])

\* main's loop over the thread data: row_start and row_end of thread i, as a
\* sequence whose element i+1 belongs to thread i.
RECURSIVE PartitionLoop(_, _, _, _)
PartitionLoop(i, acc, nr, nt) ==
    IF i >= nt THEN acc
    ELSE LET rs == IF i = 0 THEN 0 ELSE acc[i].row_end + 1
             re == IF i < (nr % nt) THEN rs + (nr \div nt)
                   ELSE rs + (nr \div nt) - 1
         IN  PartitionLoop(i + 1,
                           Append(acc, [row_start |-> rs, row_end |-> re]),
                           nr, nt)

\* A variant of Partition that gives every thread num_rows / num_threads
\* rows and the remainder to nobody.
PartitionNoExtra(nr, nt) ==
    [i \in 1 .. nt |-> [row_start |-> (i - 1) * (nr \div nt),
                        row_end |-> (i * (nr \div nt)) - 1]]

Partition(nr, nt) == PartitionLoop(0, <<>>, nr, nt)

\* A variant of StartIndex that starts every thread at the top of the board.
StartIndexWholeBoard(rs, nc) == 0

\* simulateLife's start and end indexes of a row range.
StartIndex(rs, nc) == rs * nc
EndIndex(re, nc) == (re * nc) + nc - 1

\* A variant of Calloc for an allocation that is not cleared: every entry
\* holds the -1 a previous generation left.
CallocNotCleared(nr, nc) == [i \in Indexes(nr, nc) |-> -1]

\* calloc: the change array, all 0.
Calloc(nr, nc) == [i \in Indexes(nr, nc) |-> 0]

\* A variant of Decide whose under-population test is n < 1.
DecideKillBelowOne(e, ch, i, nr, nc) ==
    LET n == Neighbors(e, i, nr, nc)
    IN  IF e[i] = "@"
        THEN IF n < 1 THEN [ch EXCEPT ![i] = -1]
             ELSE IF n >= 4 THEN [ch EXCEPT ![i] = -1]
             ELSE ch
        ELSE IF e[i] = "-"
        THEN IF n = 3 THEN [ch EXCEPT ![i] = -2] ELSE ch
        ELSE ch

\* A variant of Decide whose over-population test is n >= 3.
DecideKillAtThree(e, ch, i, nr, nc) ==
    LET n == Neighbors(e, i, nr, nc)
    IN  IF e[i] = "@"
        THEN IF n <= 1 THEN [ch EXCEPT ![i] = -1]
             ELSE IF n >= 3 THEN [ch EXCEPT ![i] = -1]
             ELSE ch
        ELSE IF e[i] = "-"
        THEN IF n = 3 THEN [ch EXCEPT ![i] = -2] ELSE ch
        ELSE ch

\* The body of simulateLife's first loop for index i: the change array after.
Decide(e, ch, i, nr, nc) ==
    LET n == Neighbors(e, i, nr, nc)
    IN  IF e[i] = "@"
        THEN IF n <= 1 THEN [ch EXCEPT ![i] = -1]
             ELSE IF n >= 4 THEN [ch EXCEPT ![i] = -1]
             ELSE ch
        ELSE IF e[i] = "-"
        THEN IF n = 3 THEN [ch EXCEPT ![i] = -2] ELSE ch
        ELSE ch

\* The body of simulateLife's second loop for index j: the board after.
ApplyCell(e, ch, j) ==
    IF ch[j] = -1 THEN [e EXCEPT ![j] = "-"]
    ELSE IF ch[j] = -2 THEN [e EXCEPT ![j] = "@"]
    ELSE e

RECURSIVE DecideLoop(_, _, _, _, _, _)
DecideLoop(e, ch, i, end, nr, nc) ==
    IF i > end THEN ch
    ELSE DecideLoop(e, Decide(e, ch, i, nr, nc), i + 1, end, nr, nc)

RECURSIVE ApplyLoop(_, _, _, _)
ApplyLoop(e, ch, j, end) ==
    IF j > end THEN e
    ELSE ApplyLoop(ApplyCell(e, ch, j), ch, j + 1, end)

\* One call of simulateLife by a thread that runs alone (every barrier it
\* waits at has one party): the board after.
SimulateLife(e, rs, re, nr, nc) ==
    LET start == StartIndex(rs, nc)
        end   == EndIndex(re, nc)
        ch    == DecideLoop(e, Calloc(nr, nc), start, end, nr, nc)
    IN  ApplyLoop(e, ch, start, end)

\* The board after g generations of a run with one thread (-t 1).
RECURSIVE RunSingle(_, _, _, _)
RunSingle(e, g, nr, nc) ==
    IF g = 0 THEN e
    ELSE LET p == Partition(nr, 1)
         IN  SimulateLife(RunSingle(e, g - 1, nr, nc),
                          p[1].row_start, p[1].row_end, nr, nc)

\* ------------------------------------------------------------- the threads

\* Variants of BarrierParties: a barrier for one party too few, and for one
\* too many.
BarrierPartiesShort == num_threads - 1
BarrierPartiesLong == num_threads + 1

\* pthread_barrier_init(&BARRIER, NULL, num_threads).
BarrierParties == num_threads

\* thread_data[t].verbose as main sets it.
ThreadVerbose(t) == IF verbose = 1 /\ t = 0 THEN 1 ELSE 0

\* A variant of IsPrinter that forgets the test of tid.
IsPrinterAnyTid(t) == verbose = 1

\* threadFunc's test before printEarth.
IsPrinter(t) == t = 0 /\ ThreadVerbose(t) = 1

BarrierSites == {"L265", "L422", "L447", "L462", "L267", "L272", "L275", "L280"}

\* A variant of ThreadEntry for a loop that tests after its body.
ThreadEntryTestAfter == "L265"

\* Where threadFunc starts: the for loop's first test.
ThreadEntry == IF 0 < iterations THEN "L265" ELSE "L275"

Start(t) == StartIndex(row_start[t], num_cols)
End(t) == EndIndex(row_end[t], num_cols)

\* A variant of AfterBarrier in which the wait of line 272 is made by the
\* printing thread only.
AfterBarrierPrinterWaits(t, site) ==
    CASE site = "L265" -> "L422"
      [] site = "L422" -> IF Start(t) < End(t) + 1 THEN "decide" ELSE "L447"
      [] site = "L447" -> IF Start(t) < End(t) + 1 THEN "apply" ELSE "L462"
      [] site = "L462" -> "L267"
      [] site = "L267" -> IF IsPrinter(t) THEN "print" ELSE "L262"
      [] site = "L272" -> "L262"
      [] site = "L275" -> "diag"
      [] site = "L280" -> "done"

\* The position a thread released from the barrier at `site` runs to.
AfterBarrier(t, site) ==
    CASE site = "L265" -> "L422"
      [] site = "L422" -> IF Start(t) < End(t) + 1 THEN "decide" ELSE "L447"
      [] site = "L447" -> IF Start(t) < End(t) + 1 THEN "apply" ELSE "L462"
      [] site = "L462" -> "L267"
      [] site = "L267" -> IF IsPrinter(t) THEN "print" ELSE "L272"
      [] site = "L272" -> "L262"
      [] site = "L275" -> "diag"
      [] site = "L280" -> "done"

\* pthread_barrier_wait: block, or, as the last party, release everyone. A
\* released thread runs on to its next step: from line 265 through
\* simulateLife's calloc, from line 462 through free(change), from line 272
\* to the for loop's ++i, which each thread makes on its own.
BarrierWait(t) ==
    /\ pc[t] \in BarrierSites
    /\ t \notin arrived
    /\ IF Cardinality(arrived) + 1 = BarrierParties
       THEN LET rel == arrived \cup {t}
            IN  /\ arrived' = {}
                /\ pc' = [u \in Tids |->
                            IF u \in rel THEN AfterBarrier(u, pc[u]) ELSE pc[u]]
                /\ idx' = [u \in Tids |->
                            IF u \in rel /\ pc[u] \in {"L422", "L447"}
                            THEN Start(u)
                            ELSE IF u \in rel /\ pc[u] = "L267" THEN 0
                            ELSE idx[u]]
                /\ change' = [u \in Tids |->
                            IF u \in rel /\ pc[u] = "L265"
                            THEN Calloc(num_rows, num_cols)
                            ELSE IF u \in rel /\ pc[u] = "L462" THEN <<>>
                            ELSE change[u]]
       ELSE /\ arrived' = arrived \cup {t}
            /\ UNCHANGED <<pc, idx, change>>
    /\ waits' = [waits EXCEPT ![t] = @ + 1]
    /\ UNCHANGED <<cfgVars, earth, row_start, row_end, mainpc, mi, iter,
                   reports, diag, fnVars>>

\* The for loop's ++i and test of line 262, made by a thread released from
\* the barrier of line 272: i is a local variable of threadFunc.
LoopStep(t) ==
    /\ pc[t] = "L262"
    /\ iter' = [iter EXCEPT ![t] = iter[t] + 1]
    /\ pc' = [pc EXCEPT ![t] = IF iter[t] + 1 < iterations THEN "L265"
                                ELSE "L275"]
    /\ UNCHANGED waits
    /\ UNCHANGED <<cfgVars, earth, row_start, row_end, mainpc, mi, idx,
                   change, arrived, reports, diag, fnVars>>

\* One pass of simulateLife's first loop.
DecideStep(t) ==
    /\ pc[t] = "decide"
    /\ change' = [change EXCEPT
                    ![t] = Decide(earth, change[t], idx[t], num_rows, num_cols)]
    /\ idx' = [idx EXCEPT ![t] = idx[t] + 1]
    /\ pc' = [pc EXCEPT ![t] = IF idx[t] + 1 < End(t) + 1 THEN "decide"
                                ELSE "L447"]
    /\ UNCHANGED waits
    /\ UNCHANGED <<cfgVars, earth, row_start, row_end, mainpc, mi, iter,
                   arrived, reports, diag, fnVars>>

\* One pass of simulateLife's second loop.
ApplyStep(t) ==
    /\ pc[t] = "apply"
    /\ earth' = ApplyCell(earth, change[t], idx[t])
    /\ idx' = [idx EXCEPT ![t] = idx[t] + 1]
    /\ pc' = [pc EXCEPT ![t] = IF idx[t] + 1 < End(t) + 1 THEN "apply"
                                ELSE "L462"]
    /\ UNCHANGED waits
    /\ UNCHANGED <<cfgVars, row_start, row_end, mainpc, mi, iter, change,
                   arrived, reports, diag, fnVars>>

\* printEarth: the header with the first cell, then one cell per step.
PrintStep(t) ==
    /\ pc[t] = "print"
    /\ reports' =
          IF idx[t] = 0
          THEN Append(reports, [tid |-> t, iteration |-> iter[t],
                                day |-> iter[t] + 1,
                                cells |-> <<earth[0]>>])
          ELSE [reports EXCEPT ![Len(reports)].cells =
                                    Append(@, earth[idx[t]])]
    /\ idx' = [idx EXCEPT ![t] = idx[t] + 1]
    /\ pc' = [pc EXCEPT ![t] = IF idx[t] + 1 < num_rows * num_cols
                                THEN "print" ELSE "L272"]
    /\ UNCHANGED waits
    /\ UNCHANGED <<cfgVars, earth, row_start, row_end, mainpc, mi, iter,
                   change, arrived, diag, fnVars>>

\* The partition line a thread prints when -p is given.
DiagStep(t) ==
    /\ pc[t] = "diag"
    /\ diag' = IF p_flag = 1
               THEN diag \cup {[tid |-> t, row_start |-> row_start[t],
                                row_end |-> row_end[t],
                                count |-> row_end[t] - row_start[t]]}
               ELSE diag
    /\ pc' = [pc EXCEPT ![t] = "L280"]
    /\ UNCHANGED waits
    /\ UNCHANGED <<cfgVars, earth, row_start, row_end, mainpc, mi, iter, idx,
                   change, arrived, reports, fnVars>>

\* ------------------------------------------------------------------- main

\* A variant of MainSetup whose check has no upper limit.
MainSetupNoUpperLimit ==
    /\ mainpc = "start"
    /\ IF num_threads < 1
       THEN /\ mainpc' = "exit"
            /\ UNCHANGED <<row_start, row_end>>
       ELSE LET p == Partition(num_rows, num_threads)
            IN  /\ row_start' = [t \in Tids |-> p[t + 1].row_start]
                /\ row_end' = [t \in Tids |-> p[t + 1].row_end]
                /\ mainpc' = "create"
    /\ UNCHANGED waits
    /\ UNCHANGED <<cfgVars, earth, mi, pc, iter, idx, change, arrived,
                   reports, diag, fnVars>>

\* The thread-count check, the barrier and the loop that fills thread_data.
MainSetup ==
    /\ mainpc = "start"
    /\ IF num_threads < 1 \/ num_threads > num_rows
       THEN /\ mainpc' = "exit"
            /\ UNCHANGED <<row_start, row_end>>
       ELSE LET p == Partition(num_rows, num_threads)
            IN  /\ row_start' = [t \in Tids |-> p[t + 1].row_start]
                /\ row_end' = [t \in Tids |-> p[t + 1].row_end]
                /\ mainpc' = "create"
    /\ UNCHANGED waits
    /\ UNCHANGED <<cfgVars, earth, mi, pc, iter, idx, change, arrived,
                   reports, diag, fnVars>>

\* pthread_create of thread mi.
MainCreate ==
    /\ mainpc = "create"
    /\ pc' = [pc EXCEPT ![mi] = ThreadEntry]
    /\ IF mi + 1 < num_threads
       THEN /\ mi' = mi + 1
            /\ UNCHANGED mainpc
       ELSE /\ mi' = 0
            /\ mainpc' = "join"
    /\ UNCHANGED waits
    /\ UNCHANGED <<cfgVars, earth, row_start, row_end, iter, idx, change,
                   arrived, reports, diag, fnVars>>

\* pthread_join of thread mi; after the last, main runs to its end.
MainJoin ==
    /\ mainpc = "join"
    /\ pc[mi] = "done"
    /\ IF mi + 1 < num_threads
       THEN /\ mi' = mi + 1
            /\ UNCHANGED mainpc
       ELSE /\ mi' = 0
            /\ mainpc' = "end"
    /\ UNCHANGED waits
    /\ UNCHANGED <<cfgVars, earth, row_start, row_end, pc, iter, idx, change,
                   arrived, reports, diag, fnVars>>

\* pthread_create of thread mi fails: no thread starts, threads[mi] is left
\* as malloc returned it, and main, which ignores the return value, goes on.
MainCreateFail ==
    /\ mainpc = "create"
    /\ IF mi + 1 < num_threads
       THEN /\ mi' = mi + 1
            /\ UNCHANGED mainpc
       ELSE /\ mi' = 0
            /\ mainpc' = "join"
    /\ UNCHANGED waits
    /\ UNCHANGED <<cfgVars, earth, row_start, row_end, pc, iter, idx, change,
                   arrived, reports, diag, fnVars>>

\* pthread_join of a thread that was never created, on an uninitialized
\* pthread_t: the call returns (its result is ignored), or the process dies,
\* or the call does not return and main stays in it (it sleeps on whatever
\* the stray pthread_t points at, which no thread will ever wake).
MainJoinNotCreated ==
    /\ mainpc = "join"
    /\ pc[mi] = "idle"
    /\ \/ IF mi + 1 < num_threads
          THEN /\ mi' = mi + 1
               /\ UNCHANGED mainpc
          ELSE /\ mi' = 0
               /\ mainpc' = "end"
       \/ /\ mainpc' = "crash"
          /\ UNCHANGED mi
       \/ UNCHANGED <<mainpc, mi>>
    /\ UNCHANGED waits
    /\ UNCHANGED <<cfgVars, earth, row_start, row_end, pc, iter, idx, change,
                   arrived, reports, diag, fnVars>>

\* initEarth has stored outside the block malloc gave it: the behaviour is
\* undefined, and the process either dies or runs on.
InitEarthFault ==
    /\ mainpc = "start"
    /\ ~(InitEarthWrites(num_rows, num_cols, init_cells)
            \subseteq EarthBlock(num_rows, num_cols))
    /\ mainpc' = "crash"
    /\ UNCHANGED waits
    /\ UNCHANGED <<cfgVars, earth, row_start, row_end, mi, pc, iter, idx,
                   change, arrived, reports, diag, fnVars>>

\* ------------------------------------------------------------ specification

InitRun ==
    /\ earth = InitEarth(num_rows, num_cols, init_cells)
    /\ row_start = [t \in Tids |-> 0]
    /\ row_end = [t \in Tids |-> 0]
    /\ mainpc = "start"
    /\ mi = 0
    /\ pc = [t \in Tids |-> "idle"]
    /\ iter = [t \in Tids |-> 0]
    /\ idx = [t \in Tids |-> 0]
    /\ change = [t \in Tids |-> <<>>]
    /\ arrived = {}
    /\ waits = [t \in Tids |-> 0]
    /\ reports = <<>>
    /\ diag = {}
    /\ counts = <<>>
    /\ prevCounts = <<>>
    /\ flipped = -1
    /\ prevEarth = <<>>

Init ==
    /\ num_rows \in 1 .. MaxRows
    /\ num_cols \in 1 .. MaxCols
    /\ num_rows * num_cols <= MaxCells
    /\ iterations \in 0 .. MaxIter
    /\ init_cells \in {s \in SUBSET CellPairs(num_rows, num_cols) :
                            Cardinality(s) <= MaxLive}
    /\ num_threads \in 0 .. (num_rows + 1)
    /\ verbose \in {0, 1}
    /\ p_flag = 0
    /\ InitRun

Thread(t) ==
    \/ BarrierWait(t)
    \/ LoopStep(t)
    \/ DecideStep(t)
    \/ ApplyStep(t)
    \/ PrintStep(t)
    \/ DiagStep(t)

Next ==
    \/ MainSetup
    \/ MainCreate
    \/ MainJoin
    \/ \E t \in Tids : BarrierWait(t)
    \/ \E t \in Tids : LoopStep(t)
    \/ \E t \in Tids : DecideStep(t)
    \/ \E t \in Tids : ApplyStep(t)
    \/ \E t \in Tids : PrintStep(t)
    \/ \E t \in Tids : DiagStep(t)

Spec == Init /\ [][Next]_vars

\* Scheduling: the process keeps running while main or a thread can take a
\* step. Every run is finite, so no thread that can run is passed over for
\* ever.
FairSpec ==
    /\ Spec
    /\ WF_vars(Next)

\* ------------------------------------------- the pure functions, applied

\* neighbors() of every index of the board, as the decide loop calls it.
FnCount ==
    /\ mainpc = "start"
    /\ counts = <<>>
    /\ counts' = [i \in Indexes(num_rows, num_cols) |->
                    Neighbors(earth, i, num_rows, num_cols)]
    /\ prevCounts' = <<>>
    /\ flipped' = -1
    /\ prevEarth' = <<>>
    /\ UNCHANGED waits
    /\ UNCHANGED <<cfgVars, earth, row_start, row_end, mainpc, mi, pc, iter,
                   idx, change, arrived, reports, diag>>

\* One cell of the board changes state; neighbors() of every index again.
FnFlip(k) ==
    /\ mainpc = "start"
    /\ counts # <<>>
    /\ flipped = -1
    /\ earth' = [earth EXCEPT ![k] = IF @ = "@" THEN "-" ELSE "@"]
    /\ prevCounts' = counts
    /\ counts' = [i \in Indexes(num_rows, num_cols) |->
                    Neighbors(earth', i, num_rows, num_cols)]
    /\ flipped' = k
    /\ prevEarth' = <<>>
    /\ UNCHANGED waits
    /\ UNCHANGED <<cfgVars, row_start, row_end, mainpc, mi, pc, iter, idx,
                   change, arrived, reports, diag>>

\* One generation: simulateLife over the whole board.
FnGeneration ==
    /\ mainpc = "start"
    /\ flipped = -1
    /\ counts = <<>>
    /\ prevEarth = <<>>
    /\ prevEarth' = earth
    /\ earth' = RunSingle(earth, 1, num_rows, num_cols)
    /\ counts' = <<>>
    /\ prevCounts' = <<>>
    /\ UNCHANGED waits
    /\ UNCHANGED <<cfgVars, flipped, row_start, row_end, mainpc, mi, pc, iter,
                   idx, change, arrived, reports, diag>>

InitFn ==
    /\ num_rows \in 1 .. FnMaxRows
    /\ num_cols \in 1 .. FnMaxCols
    /\ num_rows * num_cols <= FnMaxCells
    /\ iterations = 1
    /\ init_cells \in SUBSET CellPairs(num_rows, num_cols)
    /\ num_threads = 1
    /\ verbose = 0
    /\ p_flag = 0
    /\ InitRun

NextFn ==
    \/ FnCount
    \/ \E k \in Indexes(num_rows, num_cols) : FnFlip(k)
    \/ FnGeneration

SpecFn == InitFn /\ [][NextFn]_vars

\* main's partition of the rows, for every thread count main is given.
InitPart ==
    /\ num_rows \in 1 .. PartMaxRows
    /\ num_cols = 1
    /\ iterations = 0
    /\ init_cells = {}
    /\ num_threads \in 0 .. (num_rows + 1)
    /\ verbose = 0
    /\ p_flag = 0
    /\ InitRun

NextPart == MainSetup

SpecPart == InitPart /\ [][NextPart]_vars

\* Scenario S4: a 3 x 3 board, one generation, live (col,row) pairs
\* (0,0), (2,0), (0,2).
InitS4 ==
    /\ num_rows = 3
    /\ num_cols = 3
    /\ iterations = 1
    /\ init_cells = {<<0, 0>>, <<2, 0>>, <<0, 2>>}
    /\ num_threads \in 1 .. 3
    /\ verbose \in {0, 1}
    /\ p_flag = 0
    /\ InitRun

SpecS4 == InitS4 /\ [][Next]_vars

\* Scenario S1: a 5 x 5 board, two generations, the horizontal blinker
\* (1,2), (2,2), (3,2), run with 1, 2, 3 and 5 threads.
InitS1 ==
    /\ num_rows = 5
    /\ num_cols = 5
    /\ iterations = 2
    /\ init_cells = {<<1, 2>>, <<2, 2>>, <<3, 2>>}
    /\ num_threads \in {1, 2, 3, 5}
    /\ verbose \in {0, 1}
    /\ p_flag = 0
    /\ InitRun

SpecS1 == InitS1 /\ [][Next]_vars

\* The run when pthread_create may fail. A process that has died runs no
\* thread.
NextSpawn ==
    \/ MainSetup
    \/ MainCreate
    \/ MainCreateFail
    \/ MainJoin
    \/ MainJoinNotCreated
    \/ \E t \in Tids : mainpc # "crash" /\ BarrierWait(t)
    \/ \E t \in Tids : mainpc # "crash" /\ LoopStep(t)
    \/ \E t \in Tids : mainpc # "crash" /\ DecideStep(t)
    \/ \E t \in Tids : mainpc # "crash" /\ ApplyStep(t)
    \/ \E t \in Tids : mainpc # "crash" /\ PrintStep(t)
    \/ \E t \in Tids : mainpc # "crash" /\ DiagStep(t)

\* Main and every thread that was created keep running while they can.
\* Nothing makes pthread_join of a thread that was never created return:
\* main may stay in that call for ever.
SpecSpawn ==
    /\ Init
    /\ [][NextSpawn]_vars
    /\ WF_vars(MainSetup \/ MainCreate \/ MainCreateFail \/ MainJoin)
    /\ \A t \in 0 .. (MaxRows - 1) :
          WF_vars(t \in Tids /\ mainpc # "crash" /\ Thread(t))

\* The run on configuration files whose pairs need not lie on the board:
\* col in -1 .. num_cols and row in -1 .. num_rows + 3.
InitCfg ==
    /\ num_rows \in 1 .. 2
    /\ num_cols \in 1 .. 2
    /\ iterations \in 0 .. 1
    /\ init_cells \in {{p, q} : p, q \in (-1 .. num_cols)
                                            \X (-1 .. (num_rows + 3))}
    /\ num_threads \in 1 .. num_rows
    /\ verbose \in {0, 1}
    /\ p_flag = 0
    /\ InitRun

NextCfg ==
    \/ InitEarthFault
    \/ MainSetup
    \/ MainCreate
    \/ MainJoin
    \/ \E t \in Tids : BarrierWait(t)
    \/ \E t \in Tids : LoopStep(t)
    \/ \E t \in Tids : DecideStep(t)
    \/ \E t \in Tids : ApplyStep(t)
    \/ \E t \in Tids : PrintStep(t)
    \/ \E t \in Tids : DiagStep(t)

SpecCfg == InitCfg /\ [][NextCfg]_vars

\* The run with -p given: every thread prints its partition line.
InitDiag ==
    /\ num_rows \in 1 .. 4
    /\ num_cols = 1
    /\ iterations \in 0 .. 1
    /\ init_cells \in {{}, {<<0, 0>>}}
    /\ num_threads \in 1 .. num_rows
    /\ verbose \in {0, 1}
    /\ p_flag = 1
    /\ InitRun

SpecDiag == InitDiag /\ [][Next]_vars

\* ------------------------------------------------- reference definitions

\* The documented neighbourhood: the eight offsets (dr, dc).
Offsets == <<<<-1, -1>>, <<-1, 0>>, <<-1, 1>>, <<0, -1>>,
             <<0, 1>>, <<1, -1>>, <<1, 0>>, <<1, 1>>>>

\* The index of the cell at offset o of index i on the torus.
Wrapped(i, o, nr, nc) ==
    ((((i \div nc) + o[1]) % nr) * nc) + (((i % nc) + o[2]) % nc)

\* The live entries of the multiset of the eight wrapped neighbours of i.
MultisetCount(e, i, nr, nc) ==
    Cardinality({k \in 1 .. 8 : e[Wrapped(i, Offsets[k], nr, nc)] = "@"})

\* How many of the eight offsets of i wrap to cell k.
Multiplicity(k, i, nr, nc) ==
    Cardinality({o \in 1 .. 8 : Wrapped(i, Offsets[o], nr, nc) = k})

\* The classical step: survive with 2 or 3 neighbours, birth with 3.
ConwayStep(e, nr, nc) ==
    [i \in Indexes(nr, nc) |->
        LET n == MultisetCount(e, i, nr, nc)
        IN  IF e[i] = "@"
            THEN IF n \in {2, 3} THEN "@" ELSE "-"
            ELSE IF n = 3 THEN "@" ELSE "-"]

Earth0 == InitEarth(num_rows, num_cols, init_cells)
\* The board of the one-thread run after g generations.
Ref(g) == RunSingle(Earth0, g, num_rows, num_cols)

Rows(t) == row_start[t] .. row_end[t]
Partitioned == mainpc \in {"create", "join", "end"}

\* ------------------------------------------------------------- the claims

\* C5: for 1 <= W <= rows the row ranges of workers 0..W-1 are non-empty,
\* pairwise disjoint, contiguous in tid order and cover exactly [0, rows);
\* the first rows mod W workers own floor(rows/W)+1 rows, the others
\* floor(rows/W); rows = 10, W = 3 gives [0..3], [4..6], [7..9].
C5_PartitionCover ==
    Partitioned =>
        /\ \A t \in Tids : row_start[t] <= row_end[t]
        /\ \A t, u \in Tids : t # u => Rows(t) \cap Rows(u) = {}
        /\ row_start[0] = 0
        /\ \A t \in Tids : t > 0 => row_start[t] = row_end[t - 1] + 1
        /\ UNION {Rows(t) : t \in Tids} = 0 .. (num_rows - 1)
        /\ \A t \in Tids :
              Cardinality(Rows(t)) =
                 IF t < num_rows % num_threads
                 THEN (num_rows \div num_threads) + 1
                 ELSE num_rows \div num_threads
        /\ (num_rows = 10 /\ num_threads = 3) =>
              /\ row_start = (0 :> 0 @@ 1 :> 4 @@ 2 :> 7)
              /\ row_end = (0 :> 3 @@ 1 :> 6 @@ 2 :> 9)

C5_Witness ==
    /\ Partitioned
    /\ num_rows = 10
    /\ num_threads = 3
    /\ row_start[1] = 4
    /\ row_end[2] = 9

\* C7: for every grid with rows >= 1 and cols >= 1 and every cell, neighbors
\* returns the number of live entries of the multiset of its eight wrapped
\* neighbours, counted without deduplication, and the result is in 0..8.
C7_NeighborsMultiset ==
    counts # <<>> =>
        \A i \in Indexes(num_rows, num_cols) :
            /\ counts[i] = MultisetCount(earth, i, num_rows, num_cols)
            /\ counts[i] \in 0 .. 8

\* A 1 x 1 board whose only cell is alive: the cell is read eight times.
C7_Witness ==
    /\ counts # <<>>
    /\ num_rows = 1
    /\ num_cols = 1
    /\ earth[0] = "@"
    /\ counts[0] = 8

\* C8 as stated: flipping one cell that is a neighbour of a cell changes that
\* cell's live-neighbour count by exactly +1 or -1, on every grid.
C8_FlipByOne ==
    flipped # -1 =>
        \A i \in Indexes(num_rows, num_cols) :
            Multiplicity(flipped, i, num_rows, num_cols) > 0 =>
                \/ counts[i] - prevCounts[i] = 1
                \/ counts[i] - prevCounts[i] = -1

\* C8 amended: flipping one cell changes the live-neighbour count of every
\* cell by the number of its eight neighbour positions that wrap to the
\* flipped cell, up when the cell turns alive and down when it turns dead;
\* that number is 0 or 1 when rows >= 3 and cols >= 3.
C8_FlipByMultiplicity ==
    flipped # -1 =>
        \A i \in Indexes(num_rows, num_cols) :
            LET m == Multiplicity(flipped, i, num_rows, num_cols)
            IN  /\ counts[i] - prevCounts[i] =
                      IF earth[flipped] = "@" THEN m ELSE 0 - m
                /\ (num_rows >= 3 /\ num_cols >= 3) => m \in {0, 1}

\* A cell of a 3 x 1 board turned alive: the cell below reads it three times.
C8_Witness ==
    /\ flipped # -1
    /\ num_rows = 3
    /\ num_cols = 1
    /\ flipped = 0
    /\ earth[0] = "@"
    /\ counts[1] = prevCounts[1] + 3

\* C6: one generation applies the documented rule to every cell: with n the
\* toroidal live-neighbour count on the board before the generation, a live
\* cell dies iff n <= 1 or n >= 4, a dead cell becomes alive iff n = 3; the
\* board after is the classical Conway step of the board before.
C6_GenerationRule ==
    prevEarth # <<>> =>
        /\ earth = ConwayStep(prevEarth, num_rows, num_cols)
        /\ \A i \in Indexes(num_rows, num_cols) :
              LET n == MultisetCount(prevEarth, i, num_rows, num_cols)
              IN  /\ prevEarth[i] = "@" =>
                        (earth[i] = "-" <=> (n <= 1 \/ n >= 4))
                  /\ prevEarth[i] = "-" => (earth[i] = "@" <=> n = 3)

\* A 4 x 3 board with a live cell that dies of four neighbours, one that
\* survives and a dead one that is born.
C6_Witness ==
    /\ prevEarth # <<>>
    /\ num_rows = 4
    /\ num_cols = 3
    /\ \E i, j, k \in Indexes(num_rows, num_cols) :
          /\ prevEarth[i] = "@" /\ earth[i] = "-"
          /\ MultisetCount(prevEarth, i, num_rows, num_cols) = 4
          /\ prevEarth[j] = "@" /\ earth[j] = "@"
          /\ prevEarth[k] = "-" /\ earth[k] = "@"

\* The positions of a thread: between the barrier after simulateLife and the
\* end of the generation, and behind the loop over the generations.
AfterGeneration == {"L267", "print", "L272"}
AfterLoop == {"L275", "diag", "L280", "done"}

\* C1: for every configuration, every valid worker count W (1 <= W <= rows)
\* and every interleaving, the grid after each generation g is the grid of
\* the run of the same configuration with a single worker; the grid at the
\* end of the run is the single worker's grid after `iterations` generations.
C1_SameAsSingleWorker ==
    /\ \A g \in {iter[t] + 1 : t \in {u \in Tids : pc[u] \in AfterGeneration}} :
          earth = Ref(g)
    /\ (\E t \in Tids : pc[t] \in AfterLoop) => earth = Ref(iterations)
    /\ mainpc = "end" => earth = Ref(iterations)

\* Three workers, one row each, have finished the second generation of a
\* board that changed in both generations.
C1_Witness ==
    /\ num_threads = 3
    /\ iterations = 2
    /\ \A t \in Tids : pc[t] = "L272" /\ iter[t] = 1
    /\ Ref(1) # Earth0
    /\ Ref(2) # Ref(1)
    /\ earth = Ref(2)

\* C2: no torn reads: while any worker is in the decide loop of generation g
\* every worker is in the decide loop of generation g or waits at the barrier
\* behind it, so no worker has executed an apply-loop write of generation g:
\* the grid is the one of the end of generation g-1 and every decision made
\* so far is the decision on that grid.
C2_NoTornReads ==
    \A t \in Tids :
        pc[t] = "decide" =>
            /\ \A u \in Tids : pc[u] \in {"decide", "L447"} /\ iter[u] = iter[t]
            /\ LET before == Ref(iter[t])
               IN  /\ earth = before
                   /\ \A u \in Tids :
                         \A j \in Start(u) .. (IF pc[u] = "decide"
                                               THEN idx[u] - 1 ELSE End(u)) :
                             change[u][j] =
                                 Decide(before, Calloc(num_rows, num_cols), j,
                                        num_rows, num_cols)[j]

\* In the second generation one worker still decides while another has
\* decided all its cells, one of them to be killed or revived.
C2_Witness ==
    /\ num_threads >= 2
    /\ \E t, u \in Tids :
          /\ pc[t] = "decide" /\ iter[t] = 1
          /\ pc[u] = "L447"
          /\ \E j \in Start(u) .. End(u) : change[u][j] # 0

\* C3: reporter exclusivity: while worker 0 is inside printEarth no worker is
\* inside the apply loop (every other worker is at the barrier of line 272 in
\* the same generation), and what the reporter reads of generation g is the
\* grid with every apply write of generation g and none of generation g+1.
C3_ReporterExclusive ==
    /\ \A t \in Tids :
          pc[t] = "print" =>
              /\ \A u \in Tids \ {t} : pc[u] = "L272" /\ iter[u] = iter[t]
              /\ earth = Ref(iter[t] + 1)
    /\ \A k \in 1 .. Len(reports) :
          LET after == Ref(reports[k].iteration + 1)
          IN  \A j \in 1 .. Len(reports[k].cells) :
                  reports[k].cells[j] = after[j - 1]

\* The reporter is half way through the board of the second generation,
\* which differs from the board of the first, with two other workers around.
C3_Witness ==
    /\ num_threads = 3
    /\ pc[0] = "print"
    /\ iter[0] = 1
    /\ idx[0] = 2
    /\ Len(reports) = 2
    /\ Ref(2) # Ref(1)

\* The number of printEarth calls worker 0 has begun.
ReportsBegun ==
    IF verbose = 0 \/ num_threads < 1 \/ pc[0] = "idle" THEN 0
    ELSE IF pc[0] \in AfterLoop THEN iterations
    ELSE IF pc[0] \in {"L272", "L262"} THEN iter[0] + 1
    ELSE IF pc[0] = "print" /\ idx[0] > 0 THEN iter[0] + 1
    ELSE iter[0]

\* C4: with verbose on, printEarth is invoked exactly once per generation,
\* only by the worker with tid 0, with the zero-based generation index g,
\* after every worker has finished the apply phase of generation g and
\* before any worker starts the decide phase of generation g+1, `iterations`
\* times over a whole run; with verbose off it is never invoked.
C4_ReportOncePerGeneration ==
    /\ Len(reports) = ReportsBegun
    /\ \A k \in 1 .. Len(reports) :
          /\ reports[k].tid = 0
          /\ reports[k].iteration = k - 1
    /\ \A t \in Tids :
          pc[t] = "print" =>
              \A u \in Tids : iter[u] = iter[t] /\ pc[u] \in {"print", "L272"}
    /\ mainpc = "end" =>
          Len(reports) = IF verbose = 1 THEN iterations ELSE 0

\* A verbose run of two generations with three workers has ended with two
\* reports.
C4_Witness ==
    /\ mainpc = "end"
    /\ verbose = 1
    /\ num_threads = 3
    /\ iterations = 2
    /\ Len(reports) = 2
    /\ Len(reports[2].cells) = num_rows * num_cols

ValidThreads == 1 <= num_threads /\ num_threads <= num_rows

\* Every worker has returned and main has joined them all.
Joined == mainpc = "end" /\ \A t \in Tids : pc[t] = "done"

\* C9: under fair scheduling, for every iterations >= 0 and every valid W,
\* every worker eventually completes exactly `iterations` generations and
\* returns and main then joins all W workers: no worker stays blocked at the
\* barrier for ever, and no worker returns before it has completed all the
\* generations.
C9_RunsToCompletion ==
    /\ <>(IF ValidThreads THEN Joined ELSE mainpc = "exit")
    /\ [](\A t \in Tids :
            pc[t] = "done" => iter[t] = iterations /\ earth = Ref(iterations))

\* Three workers have returned from two generations and main has joined them.
C9_Witness ==
    /\ Joined
    /\ num_threads = 3
    /\ iterations = 2
    /\ verbose = 0
    /\ \A t \in Tids : iter[t] = 2

\* The index of the cell in column c of row r.
IndexOf(c, r) == (num_cols * r) + c

\* C10 as stated: in scenario S4 (3 x 3, one generation, live (col,row)
\* pairs (0,0), (2,0), (0,2)) cell (0,0) is still alive after the generation,
\* having had 2 live neighbours, and cell (1,1) is still dead, having had 0.
C10_S4AsStated ==
    mainpc = "end" =>
        /\ earth[IndexOf(0, 0)] = "@"
        /\ Neighbors(Earth0, IndexOf(0, 0), num_rows, num_cols) = 2
        /\ earth[IndexOf(1, 1)] = "-"
        /\ Neighbors(Earth0, IndexOf(1, 1), num_rows, num_cols) = 0

\* C10 amended: in scenario S4 cell (0,0) is still alive after the
\* generation, having had 2 live neighbours, and cell (1,1), which on a
\* 3 x 3 torus has all three live cells as neighbours (n = 3), is alive.
C10_S4Amended ==
    /\ Neighbors(Earth0, IndexOf(0, 0), num_rows, num_cols) = 2
    /\ Neighbors(Earth0, IndexOf(1, 1), num_rows, num_cols) = 3
    /\ \A t \in Tids :
          (pc[t] \in {"L447", "apply"} /\ Start(t) <= IndexOf(1, 1)
             /\ IndexOf(1, 1) <= End(t)) => change[t][IndexOf(1, 1)] = -2
    /\ mainpc = "end" =>
          /\ earth[IndexOf(0, 0)] = "@"
          /\ earth[IndexOf(1, 1)] = "@"

\* The run of S4 with three workers has ended, cell (1,1) alive.
C10_Witness ==
    /\ mainpc = "end"
    /\ num_threads = 3
    /\ Earth0[IndexOf(1, 1)] = "-"
    /\ earth[IndexOf(1, 1)] = "@"
    /\ earth[IndexOf(0, 0)] = "@"

\* The (col,row) pairs of the live cells of a board.
LiveSet(e) ==
    {p \in CellPairs(num_rows, num_cols) : e[IndexOf(p[1], p[2])] = "@"}

\* C11: scenario S1/S6, the blinker: rows = 5, cols = 5, iterations = 2,
\* live (col,row) pairs (1,2), (2,2), (3,2): for each W in {1, 2, 3, 5} and
\* every interleaving the live set after generation 1 is exactly
\* {(2,1), (2,2), (2,3)} and after generation 2 exactly {(1,2), (2,2), (3,2)}.
C11_Blinker ==
    /\ mainpc = "start" => LiveSet(earth) = {<<1, 2>>, <<2, 2>>, <<3, 2>>}
    /\ \A t \in Tids :
          /\ (pc[t] \in AfterGeneration /\ iter[t] = 0) =>
                LiveSet(earth) = {<<2, 1>>, <<2, 2>>, <<2, 3>>}
          /\ (pc[t] \in AfterGeneration /\ iter[t] = 1) =>
                LiveSet(earth) = {<<1, 2>>, <<2, 2>>, <<3, 2>>}
          /\ pc[t] \in AfterLoop =>
                LiveSet(earth) = {<<1, 2>>, <<2, 2>>, <<3, 2>>}
    /\ \A k \in 1 .. Len(reports) :
          Len(reports[k].cells) = num_rows * num_cols =>
              {j \in 1 .. (num_rows * num_cols) : reports[k].cells[j] = "@"} =
                  IF k = 1 THEN {8, 13, 18} ELSE {12, 13, 14}
    /\ mainpc = "end" => LiveSet(earth) = {<<1, 2>>, <<2, 2>>, <<3, 2>>}

\* Five workers, one row each, are behind the first generation with the
\* blinker vertical.
C11_Witness ==
    /\ num_threads = 5
    /\ \A t \in Tids : pc[t] = "L272" /\ iter[t] = 0
    /\ verbose = 1
    /\ Len(reports) = 1
    /\ LiveSet(earth) = {<<2, 1>>, <<2, 2>>, <<2, 3>>}

\* C12: with iterations = 0 the run terminates (for a valid thread count
\* main joins every worker), the board is at every moment the initial board,
\* and printEarth is never called.
C12_ZeroIterations ==
    /\ [](iterations = 0 => earth = Earth0 /\ reports = <<>>)
    /\ ((iterations = 0 /\ ValidThreads) ~> Joined)

\* Two workers of a verbose run with no generation have returned and been
\* joined, over a board that has live cells.
C12_Witness ==
    /\ iterations = 0
    /\ num_threads = 2
    /\ verbose = 1
    /\ init_cells # {}
    /\ Joined
    /\ earth = Earth0
    /\ reports = <<>>

\* The threads whose pthread_create has failed.
SpawnFailed ==
    {t \in Tids : /\ pc[t] = "idle"
                  /\ \/ mainpc \in {"join", "end", "crash"}
                     \/ mainpc = "create" /\ t < mi}

\* C13: when the creation of a worker fails, the run ends in a fatal error:
\* main exits on the failure, no generation is run by fewer than W workers,
\* and no worker that did start stays blocked at the barrier.
C13_SpawnFailureFatal ==
    /\ [](SpawnFailed # {} => earth = Earth0)
    /\ (SpawnFailed # {}) ~> (mainpc = "exit" /\ arrived = {})

\* C14: when the thread count W is below 1 or above the number of rows, main
\* exits with status 1 from its check, which comes before the barrier is
\* initialised, thread_data is filled and any thread is created: no thread
\* ever runs, no generation is computed, nothing is printed and the board
\* stays the initial board.
C14_BadThreadCount ==
    /\ [](~ValidThreads =>
            /\ mainpc \in {"start", "exit"}
            /\ \A t \in Tids : pc[t] = "idle" /\ iter[t] = 0
                                /\ row_start[t] = 0 /\ row_end[t] = 0
            /\ arrived = {}
            /\ earth = Earth0
            /\ reports = <<>>)
    /\ (~ValidThreads ~> mainpc = "exit")

\* One thread more than the board has rows was asked for, over a board with
\* live cells and two generations to run, and main has exited.
C14_Witness ==
    /\ num_threads = num_rows + 1
    /\ num_rows = 2
    /\ iterations = 2
    /\ init_cells # {}
    /\ mainpc = "exit"
    /\ earth = Earth0

\* C15: a configuration with a (col,row) pair off the board is rejected
\* before any worker runs (main never gets past its start, no thread leaves
\* its idle state), and initEarth stores at no index outside
\* [0, num_rows * num_cols).
C15_ConfigRejected ==
    /\ ~(init_cells \subseteq CellPairs(num_rows, num_cols)) =>
            /\ mainpc \in {"start", "exit"}
            /\ \A t \in Tids : pc[t] = "idle"
    /\ InitEarthWrites(num_rows, num_cols, init_cells)
            \subseteq Indexes(num_rows, num_cols)

\* The sum of the row counts printed by threads 0 .. n-1.
RECURSIVE DiagSum(_)
DiagSum(n) ==
    IF n = 0 THEN 0
    ELSE LET d == CHOOSE x \in diag : x.tid = n - 1
         IN  d.count + DiagSum(n - 1)

\* C16: with the partition diagnostic on, each thread prints its tid, its
\* row_start, its row_end and the number of rows it owns,
\* row_end - row_start + 1; once every thread has printed, the printed counts
\* sum to num_rows.
C16_DiagnosticCounts ==
    /\ \A d \in diag :
          /\ d.row_start = row_start[d.tid]
          /\ d.row_end = row_end[d.tid]
          /\ d.count = d.row_end - d.row_start + 1
    /\ (\A t \in Tids : \E d \in diag : d.tid = t) =>
            DiagSum(num_threads) = num_rows

\* C17 as stated: a worker that has returned has made 4 * iterations + 1
\* barrier waits.
C17_FourPerGeneration ==
    \A t \in Tids : pc[t] = "done" => waits[t] = 4 * iterations + 1

\* The waits a thread has made when it stands before its call at `site` (one
\* more when it has called and is blocked).
WaitsBefore(t, site) ==
    CASE site = "L265" -> 6 * iter[t]
      [] site = "L422" -> 6 * iter[t] + 1
      [] site = "L447" -> 6 * iter[t] + 2
      [] site = "L462" -> 6 * iter[t] + 3
      [] site = "L267" -> 6 * iter[t] + 4
      [] site = "L272" -> 6 * iter[t] + 5
      [] site = "L275" -> 6 * iterations
      [] site = "L280" -> 6 * iterations + 1

\* C17, amended: each worker makes six barrier waits per generation, in the
\* order start of generation (line 265), before the decide loop (422),
\* decide -> apply (447), after the apply loop (462), apply -> report (267),
\* end of generation (272), and two more after the last generation, before
\* and after the partition diagnostic (275, 280): 6 * iterations + 2 waits
\* per worker over a run.
C17_SixPerGeneration ==
    \A t \in Tids :
        /\ pc[t] \in BarrierSites =>
              waits[t] = WaitsBefore(t, pc[t]) + (IF t \in arrived THEN 1 ELSE 0)
        /\ pc[t] = "decide" => waits[t] = 6 * iter[t] + 2
        /\ pc[t] = "apply" => waits[t] = 6 * iter[t] + 3
        /\ pc[t] = "print" => waits[t] = 6 * iter[t] + 5
        /\ pc[t] = "L262" => waits[t] = 6 * iter[t] + 6
        /\ pc[t] = "diag" => waits[t] = 6 * iterations + 1
        /\ pc[t] = "done" => waits[t] = 6 * iterations + 2
        /\ pc[t] = "idle" => waits[t] = 0

\* Three workers have returned from two generations, each after fourteen
\* barrier waits.
C17_Witness ==
    /\ num_threads = 3
    /\ iterations = 2
    /\ \A t \in Tids : pc[t] = "done" /\ waits[t] = 14

\* The indexes of the rows thread t was given.
OwnRange(t) ==
    (row_start[t] * num_cols) .. (row_end[t] * num_cols + num_cols - 1)

\* C18: the board is written only by a thread in its apply loop, one cell a
\* step, at the loop's index, which lies in the thread's own row range
\* [row_start * cols, row_end * cols + cols - 1]; no step of the decide loop,
\* of printEarth, of the barrier or of main changes the board; the ranges of
\* two threads share no index, so no index is written by two threads in a
\* generation.
C18_WriteDiscipline ==
    /\ [][earth' # earth =>
            \E t \in Tids :
                /\ pc[t] = "apply"
                /\ idx[t] \in OwnRange(t)
                /\ idx'[t] = idx[t] + 1
                /\ \A i \in Indexes(num_rows, num_cols) \ {idx[t]} :
                        earth'[i] = earth[i]
                /\ \A u \in Tids \ {t} : pc'[u] = pc[u] /\ idx'[u] = idx[u]]_vars
    /\ [](\A t \in Tids : pc[t] = "apply" => idx[t] \in OwnRange(t))
    /\ [](Partitioned =>
            \A t, u \in Tids : t # u => OwnRange(t) \cap OwnRange(u) = {})

\* The second of two threads is in its apply loop and has changed a cell of
\* its own rows, while the first has yet to write.
C18_Witness ==
    /\ num_threads = 2
    /\ pc[1] = "apply"
    /\ pc[0] = "apply"
    /\ idx[0] = Start(0)
    /\ iter[1] = 0
    /\ idx[1] > Start(1)
    /\ \E i \in OwnRange(1) : i < idx[1] /\ earth[i] # Earth0[i]
    /\ \A i \in OwnRange(0) : earth[i] = Earth0[i]

\* The array whose every entry is 0.
AllKeep == [i \in Indexes(num_rows, num_cols) |-> 0]

\* The entry the decide loop leaves at index i for board e.
Decision(e, i) == Decide(e, AllKeep, i, num_rows, num_cols)[i]

\* C19: when a thread enters the decide phase of a generation every entry of
\* its change array is 0; the decide loop leaves in the entries of the
\* thread's own range the decisions taken on this generation's board and 0
\* everywhere else; the array is gone once the apply phase is over, so no
\* decision reaches the next generation; and a thread's array is written only
\* by that thread's own decide loop, at its loop index inside its own range.
C19_MaskDiscipline ==
    /\ [](\A t \in Tids :
            /\ pc[t] = "L422" => change[t] = AllKeep
            /\ pc[t] \in {"decide", "L447"} =>
                  \A i \in Indexes(num_rows, num_cols) :
                      change[t][i] =
                          IF i \in OwnRange(t) /\ (pc[t] = "L447" \/ i < idx[t])
                          THEN Decision(earth, i) ELSE 0
            /\ pc[t] \in {"apply", "L462"} =>
                  \A i \in Indexes(num_rows, num_cols) \ OwnRange(t) :
                      change[t][i] = 0
            /\ pc[t] \notin {"L422", "decide", "L447", "apply", "L462"} =>
                  change[t] = <<>>)
    /\ [][\A t \in Tids :
            change'[t] # change[t] =>
                \/ /\ pc[t] = "decide"
                   /\ idx[t] \in OwnRange(t)
                   /\ idx'[t] = idx[t] + 1
                   /\ \A i \in Indexes(num_rows, num_cols) \ {idx[t]} :
                           change'[t][i] = change[t][i]
                \/ pc[t] = "L265" /\ pc'[t] = "L422"
                \/ pc[t] = "L462" /\ pc'[t] = "L267"]_vars

\* In the second generation the second of two threads has finished its
\* decide loop with a kill or a revival in its array, after a first
\* generation that changed the board.
C19_Witness ==
    /\ num_threads = 2
    /\ iter[1] = 1
    /\ pc[1] = "L447"
    /\ earth # Earth0
    /\ \E i \in OwnRange(1) : change[1][i] # 0
    /\ \E i \in OwnRange(1) : change[1][i] = 0

\* C20: on every board with at least one row and one column, for every
\* index of the board, each of the eight indexes neighbors() computes
\* (l_index, r_index, upper, l_upper, r_upper, lower, l_lower, r_lower) lies
\* in [0, num_rows * num_cols): every read of neighbors() is a read of a
\* cell of the board.
C20_NeighborsInRange ==
    \A i \in Indexes(num_rows, num_cols) :
        LET n == NeighborIndexes(i, num_rows, num_cols)
        IN  /\ Len(n) = 8
            /\ \A k \in 1 .. 8 :
                  /\ n[k] >= 0
                  /\ n[k] < num_rows * num_cols
                  /\ n[k] \in DOMAIN earth

\* neighbors() has been called on every index of a 3 x 4 board, where the
\* left upper neighbour of index 0 is the last index and the right lower
\* neighbour of the last index is index 0.
C20_Witness ==
    /\ num_rows = 3
    /\ num_cols = 4
    /\ counts # <<>>
    /\ flipped = -1
    /\ NeighborIndexes(0, num_rows, num_cols)[4] = 11
    /\ NeighborIndexes(11, num_rows, num_cols)[8] = 0

\* The threads main has created.
Created == {t \in Tids : pc[t] # "idle"}

\* The barriers a thread has been released from.
Passed(t) == waits[t] - (IF t \in arrived THEN 1 ELSE 0)

\* A step in which the barrier releases its waiters.
Release == waits' # waits /\ arrived' = {}

\* At a release every thread stands at one call site with one value of i,
\* all of them but the caller are blocked there, and each runs on from it.
ReleasedTogether ==
    Release =>
        /\ Cardinality(arrived) + 1 = num_threads
        /\ \A t, u \in Tids :
              /\ pc[t] \in BarrierSites
              /\ pc[t] = pc[u]
              /\ iter[t] = iter[u]
        /\ \A t \in Tids : pc'[t] = AfterBarrier(t, pc[t])

\* C21 as stated: the barrier has as many parties as threads are created,
\* every release frees all W threads from one call site in one generation
\* index, and in every state no two workers differ in their generation
\* index i or are more than one barrier-delimited phase apart.
C21_LockstepAsStated ==
    /\ [][ReleasedTogether]_vars
    /\ [](mainpc \in {"join", "end"} =>
            Cardinality(Created) = BarrierParties)
    /\ [](\A t, u \in Created :
            /\ iter[t] = iter[u]
            /\ Passed(t) - Passed(u) <= 1)

\* The generation a thread is in: its i, and one more once it has left the
\* barrier of line 272 and has yet to make the loop's ++i.
Generation(t) == iter[t] + (IF pc[t] = "L262" THEN 1 ELSE 0)

\* C21, amended: the barrier has as many parties as threads are created,
\* every release frees all W threads from one call site with one value of i,
\* and in every state all threads have been released from the same number
\* of barriers (none is a phase ahead: the one ahead is blocked at the next
\* barrier) and are in the same generation; their loop variables i are equal
\* except after the release from the barrier of line 272, where each thread
\* makes its ++i on its own and the values differ by at most one.
C21_Lockstep ==
    /\ [][ReleasedTogether]_vars
    /\ [](mainpc \in {"join", "end"} =>
            Cardinality(Created) = BarrierParties)
    /\ [](\A t, u \in Tids :
            /\ Passed(t) = Passed(u)
            /\ t \in Created /\ u \in Created => Generation(t) = Generation(u)
            /\ iter[t] # iter[u] =>
                  /\ iter[t] - iter[u] \in {-1, 1}
                  /\ pc[t] = "L262" \/ pc[u] = "L262")

\* After the first of two generations, of three threads released from the
\* barrier of line 272 one has made its ++i and is blocked at line 265 with
\* i = 1, while the two others still have i = 0.
C21_Witness ==
    /\ num_threads = 3
    /\ iterations = 2
    /\ pc[0] = "L265" /\ iter[0] = 1 /\ arrived = {0}
    /\ pc[1] = "L262" /\ iter[1] = 0
    /\ pc[2] = "L262" /\ iter[2] = 0
    /\ \A t \in Tids : Passed(t) = 6

====
